---- MODULE Spec2Model ----
(***************************************************************************)
(* The parallel test harness of build.py: main() starts jvmCount           *)
(* RunTestsJVM threads, each driving one child JVM through its stdin and   *)
(* tailing the events file the child writes; the threads pull test class   *)
(* names from one queue.Queue and main() sums their counters after join.   *)
(*                                                                         *)
(* The pool level (Spec, SpecCoop, SpecWorker, SpecOutput) treats an       *)
(* events file as a sequence of frames.  SpecSelect starts main() at the   *)
(* class discovery, with paths as sequences of characters.  The reader     *)
(* level (SpecReader) treats one events file as a sequence of characters   *)
(* and models ReadEvents.readline and the line loop of RunTestsJVM.run.    *)
(* SpecConsole follows the threads through message() and printLock.        *)
(***************************************************************************)
EXTENDS Integers, Sequences, FiniteSets, TLC

\* ------------------------------------------------------------- bounds
\* number of test classes found under build/classes/test
NumJobs == 2
\* the same, for the run in which no child dies
CoopJobs == 3
\* frames a child writes for one job before its IDLE frame, when a single
\* worker is followed through every stream of frames
MaxFrames == 2

\* multiprocessing.cpu_count() of the machine the harness runs on
CpuCount == 2

Min(a, b) == IF a < b THEN a ELSE b

\* frames a child writes for the job before IDLE, when the output of one job
\* is followed
MaxOutFrames == 4

\* files os.walk yields under build/classes/test, when the class discovery
\* is followed
MaxFiles == 3

\* jobFailFrames tells apart no, one and several failure frames
ManyFailures == 2

\* the kinds of frame a child writes while it runs a job; TEST_FINISHED is
\* one of the kinds no branch of lines 141-167 names
JobKinds == {"TEST_STARTED", "TEST_FAILURE", "SUITE_FAILURE", "APPEND_STDOUT",
             "TEST_FINISHED"}
FailureKinds == {"TEST_FAILURE", "SUITE_FAILURE"}

\* the sequences over S of length n, and of length at most n
RECURSIVE SeqsOfLen(_, _)
SeqsOfLen(S, n) ==
  IF n = 0 THEN {<<>>}
  ELSE {Append(q, x) : q \in SeqsOfLen(S, n - 1), x \in S}
SeqsUpTo(S, n) == UNION {SeqsOfLen(S, k) : k \in 0..n}

\* the kinds that decide what is printed and what is kept back
OutputKinds == {"APPEND_STDOUT", "TEST_FAILURE", "TEST_STARTED"}

\* what a suite can make its child write before IDLE, in the runs of the
\* whole pool: a passing test, a failing test
PoolStreams ==
  {<<"TEST_STARTED">>, <<"TEST_STARTED", "TEST_FAILURE">>}

VARIABLES
  testClasses,     \* main(): the discovered class names, in os.walk order
  cpus,            \* what multiprocessing.cpu_count() returns
  streams,         \* the streams of frames a suite may make its child write
  childScript,     \* per child: frames of the running job still to write
  \* the reader level: one events file, its child and its ReadEvents
  rdFile,          \* the characters the child has written to the events file
  rdScript,        \* the characters the child has still to write
  rdFrames,        \* the frames the child writes for the job, as lines
  rdAlive,         \* whether the child runs (process.poll() is None)
  rdPc,            \* "off", "read" (line 188), "poll" (line 191), "raised",
                   \*   "idle" (the job loop read IDLE), "crashed"
  rdPhase,         \* the caller of readline: "waitIdle" or "job"
  rdPos,           \* readline's local pos
  rdCur,           \* the position of the file object f
  rdLines,         \* run()'s local lines
  rdReturned,      \* history: the lines readline returned, end to end
  rdLast,          \* history: the line readline returned last
  rdDecoded,       \* history: the texts handed to json.loads, as lines
  rdPartial,       \* history: a read attempt met an unfinished line
  \* the command line and the class discovery of main()
  walk,            \* the files os.walk yields, in its order, as <<root, fileName>>
  testSubString,   \* main()'s testSubString (NoSub: None)
  classNames,      \* the classNames appended to testClasses at line 445 (the
                   \*   variable testClasses numbers them once the walk is over)
  verbose,         \* whether -verbose was given
  \* the console
  printLock,       \* printLock: the worker that holds it (NoHolder: free)
  conPc            \* per worker: where run() is with respect to the console,
                   \*   as <<place, step of message()>>

\* ------------------------------------------------------------- main()'s locals
\* line 455
jvmCount == Min(cpus, Len(testClasses))

Workers == 1..jvmCount

\* lines 115 and 480: the value that ends a worker's loop (class names are
\* numbered from 1)
None == 0

\* line 472: the id main() passes to the i-th RunTestsJVM (i counts from 0)
\* is the literal 0, whatever i is
WorkerId(i) == 0

\* 'build/test/%d.events' % self.id : a path is named by the number in it
EventsFilePath(ident) == ident

Paths == 0..(jvmCount - 1)

VARIABLES
  pcMain,          \* where main() is: "walk" (the index of main()'s loop then
                   \*   counts the files seen), "start", "put", "putNone", "join", "decide", "done"
  mainI,           \* the index of main()'s current loop
  jobs,            \* queue.Queue: a sequence of class names and None
  sumFail, sumTest, sumSuite,   \* main()'s failCount, testCount, suiteCount
  exitCode,        \* -1 while running, else the process exit status
  outcome,         \* what main() printed last: "", "FAILURE", "NOTESTS", "SUCCESS"
  pc,              \* per worker thread: its position in run()
  id,              \* per worker: self.id
  testCount, suiteCount, failCount,  \* per worker: the counters
  didFail, testCaseFailed,           \* per worker: locals of the job loop
  evFile,          \* per worker: the inode ReadEvents.f is open on
  evUnread,        \* per worker: the frames of that inode past f.tell()
  proc,            \* per worker: its child: "none", "launched", "running", "exited"
  childFile,       \* per child: the inode it writes its events to (NoFile: none yet)
  childStdin,      \* per child: the job lines written to its stdin, unread
  path,            \* the file system: path -> inode (NoFile: no such file)
  files,           \* the inodes: the frames of each, kept for the threads
                   \*   that have still to open their events file
  emittedStarted,  \* history: TEST_STARTED frames written by children
  pulled,          \* history: per job, how many times a worker's get() returned it
  failedJobs,      \* history: number of jobs whose child wrote a failure frame
  childFailed,     \* history: per child, whether it wrote one for the running job
  jobFail0,        \* history: per worker, failCount when its current job began
  jobFailFrames,   \* history: per worker, failure frames it decoded in this job
                   \*          (counted up to ManyFailures)
  pendingOutput,   \* per worker: the local pendingOutput; a chunk is named by
                   \*   the position of its frame in the job
  shownNow,        \* history: per worker, the chunks of this job that line 144
                   \*   printed
  lastReport,      \* history: per worker, the chunks in the failure report
                   \*   line 154 printed last in this job
  jobFrames        \* history: per worker, the kinds it decoded in this job

mainVars == <<pcMain, mainI, sumFail, sumTest, sumSuite, exitCode, outcome>>
counterVars == <<testCount, suiteCount, failCount>>
jobLocalVars == <<didFail, testCaseFailed, jobFail0, jobFailFrames,
                  pendingOutput, shownNow, lastReport, jobFrames>>
readerVars == <<evFile, evUnread>>
childVars == <<proc, childFile, childStdin, childScript>>
inputVars == <<testClasses, cpus, streams, walk, testSubString, classNames, verbose>>
rdVars == <<rdFile, rdScript, rdFrames, rdAlive, rdPc, rdPhase, rdPos, rdCur,
            rdLines, rdReturned, rdLast, rdDecoded, rdPartial>>
fsVars == <<path, files>>
histVars == <<pulled, emittedStarted, failedJobs, childFailed>>
poolVars == <<inputVars, mainVars, jobs, pc, id, counterVars, jobLocalVars,
              readerVars, childVars, fsVars, histVars>>
conVars == <<printLock, conPc>>
vars == <<conVars, rdVars, inputVars, mainVars, jobs, pc, id, counterVars, jobLocalVars,
          readerVars, childVars, fsVars, histVars>>

\* ------------------------------------------------------------- initial state
\* A run starts with an empty queue and no thread; build/test/0.events may be
\* left over from an earlier run (the harness never deletes it at the end).
StaleFile == <<"IDLE">>

\* the reader level at rest
RdOff ==
  /\ rdFile = <<>> /\ rdScript = <<>> /\ rdFrames = <<>>
  /\ rdAlive = FALSE /\ rdPc = "off" /\ rdPhase = "waitIdle"
  /\ rdPos = 0 /\ rdCur = 0 /\ rdLines = <<>>
  /\ rdReturned = <<>> /\ rdLast = <<>> /\ rdDecoded = <<>>
  /\ rdPartial = FALSE

\* line 416: testSubString = None
NoSub == <<>>

\* lines 457-462, and line 472, which passes it on as doPrintOutput
printOutput == testSubString # NoSub

\* Inodes: the file child w creates is inode w; the left-over file is the
\* last one.  NoFile stands for "no file".
NoFile == 0
StaleInode == jvmCount + 1
Inodes == 1..(jvmCount + 1)

\* the state main() is in at line 468, for n discovered classes (distinct
\* names: they are distinct files), c processors and the streams ss;
\* stales is whether build/test/0.events may be there already
InitPool(n, c, ss, stales) ==
  /\ testClasses = [i \in 1..n |-> i]
  /\ cpus = c
  /\ streams = ss
  /\ pcMain = "start" /\ mainI = 0
  /\ jobs = <<>>
  /\ sumFail = 0 /\ sumTest = 0 /\ sumSuite = 0
  /\ exitCode = -1 /\ outcome = ""
  /\ pc = [w \in Workers |-> "unborn"]
  /\ id = [w \in Workers |-> -1]
  /\ testCount = [w \in Workers |-> 0]
  /\ suiteCount = [w \in Workers |-> 0]
  /\ failCount = [w \in Workers |-> 0]
  /\ didFail = [w \in Workers |-> FALSE]
  /\ testCaseFailed = [w \in Workers |-> FALSE]
  /\ evFile = [w \in Workers |-> NoFile]
  /\ evUnread = [w \in Workers |-> <<>>]
  /\ proc = [w \in Workers |-> "none"]
  /\ childFile = [w \in Workers |-> NoFile]
  /\ childStdin = [w \in Workers |-> <<>>]
  /\ childScript = [w \in Workers |-> <<>>]
  /\ \E stale \in stales :
       /\ path = [p \in Paths |-> IF stale /\ p = 0 THEN StaleInode ELSE NoFile]
       /\ files = [f \in Inodes |-> IF stale /\ f = StaleInode THEN StaleFile ELSE <<>>]
  /\ pulled = [j \in 1..n |-> 0]
  /\ emittedStarted = 0
  /\ failedJobs = 0
  /\ childFailed = [w \in Workers |-> FALSE]
  /\ jobFail0 = [w \in Workers |-> 0]
  /\ jobFailFrames = [w \in Workers |-> 0]
  /\ pendingOutput = [w \in Workers |-> <<>>]
  /\ shownNow = [w \in Workers |-> <<>>]
  /\ lastReport = [w \in Workers |-> <<>>]
  /\ jobFrames = [w \in Workers |-> <<>>]

\* line 51: the lock is free; the console is not followed
NoHolder == 0
ConOff == printLock = NoHolder /\ conPc = <<>>

\* 'build.py test': every class is run, -verbose is not given; the names of
\* the classes are not followed
RunAll ==
  /\ walk = <<>> /\ testSubString = NoSub /\ classNames = <<>>
  /\ verbose = FALSE

Init == InitPool(NumJobs, CpuCount, PoolStreams, BOOLEAN) /\ RdOff /\ RunAll /\ ConOff

\* three classes on two processors
InitCoop == InitPool(CoopJobs, CpuCount, PoolStreams, BOOLEAN) /\ RdOff /\ RunAll /\ ConOff

\* one processor, hence one worker, and every stream of at most MaxFrames frames
InitWorker ==
  InitPool(NumJobs, 1, SeqsUpTo(JobKinds, MaxFrames), BOOLEAN) /\ RdOff /\ RunAll /\ ConOff

\* ------------------------------------------------------------- helpers
\* queue.Queue.put and queue.Queue.get (get blocks while the queue is empty)
QueuePutFront(q, x) == <<x>> \o q
QueuePut(q, x) == Append(q, x)
QueueRestKept(q) == q
QueueRest(q) == Tail(q)
QueueLast(q) == q[Len(q)]
QueueHead(q) == Head(q)

\* a thread that has ended, by return or by an uncaught exception
Ended(p) == p \in {"done", "raised", "crashed"}

\* the threads that have still to open their events file, given every
\* thread's position
Openers(pcs) == {w \in Workers : pcs[w] \in {"unborn", "exists", "remove", "open"}}

\* A reader is the frames past its offset; what lies before the offset of
\* every reader is read by nobody once no thread is left to open a file, and
\* is not kept then.
Kept(fs, pcs) == IF Openers(pcs) = {} THEN [f \in Inodes |-> <<>>] ELSE fs

\* an unlinked file that no process holds open is gone
Unlinked(f) ==
  IF \E w \in Workers : childFile[w] = f \/ (evFile[w] = f /\ ~Ended(pc[w]))
    THEN files ELSE [files EXCEPT ![f] = <<>>]

\* frames appended to inode f reach the file and every reader open on it
Appended(f, frames) ==
  /\ files' = Kept([files EXCEPT ![f] = @ \o frames], pc)
  /\ evUnread' = [w \in Workers |->
        IF evFile[w] = f /\ ~Ended(pc[w]) THEN evUnread[w] \o frames
        ELSE evUnread[w]]

Terminated(w) == Ended(pc[w])

\* line 486: jvm.join() returns when the thread has ended
JoinReturnsAtOnce(w) == TRUE
JoinReturns(w) == Terminated(w)

\* what the child writes between its launch and its first read of stdin
StartupFrames == <<"IDLE">>

\* line 118: self.suiteCount += 1
BumpSuiteForgotten(n) == n
BumpSuite(n) == n + 1

\* lines 155-158: the didFail latch
CountFailureEach(latched, n) == n + 1
CountFailure(latched, n) == IF latched THEN n ELSE n + 1
\* line 158: didFail = True, in the branch of a failure frame
LatchNever(latched, isFailure) == latched
LatchAfter(latched, isFailure) == latched \/ isFailure

\* line 141
AppendKinds == {"APPEND_STDOUT", "APPEND_STDERR"}
\* line 143: whether a chunk is printed at once
ShowNowInPrintMode(failed, doPrintOutput) == doPrintOutput
ShowNow(failed, doPrintOutput) == failed \/ doPrintOutput

\* lines 493-500 with the middle branch left out
ExitDecisionOnFailuresOnly(f, t) ==
  IF f > 0 THEN [outcome |-> "FAILURE", code |-> 1]
  ELSE [outcome |-> "SUCCESS", code |-> 0]

\* lines 493-500: what main() prints and the status the process ends with.
\* The 'no tests ran' branch has no sys.exit: main()'s loop goes on and the
\* script ends normally, status 0.
ExitDecision(f, t) ==
  IF f > 0 THEN [outcome |-> "FAILURE", code |-> 1]
  ELSE IF t = 0 THEN [outcome |-> "NOTESTS", code |-> 0]
  ELSE [outcome |-> "SUCCESS", code |-> 0]

\* ------------------------------------------------------------- class discovery
\* Paths and file names are sequences of characters.
TestRoot == <<"b", "u", "i", "l", "d", "/", "c", "l", "a", "s", "s", "e", "s",
              "/", "t", "e", "s", "t">>
SubRoot == TestRoot \o <<"/", "o">>
DotClass == <<".", "c", "l", "a", "s", "s">>
TestPrefix == <<"T", "e", "s", "t">>

\* what os.walk('build/classes/test') may yield: TestA.class, o/TestAB.class,
\* the inner class TestA$1.class, Util.class
WalkFiles ==
  { <<TestRoot, TestPrefix \o <<"A">> \o DotClass>>,
    <<SubRoot, TestPrefix \o <<"A", "B">> \o DotClass>>,
    <<TestRoot, TestPrefix \o <<"A", "$", "1">> \o DotClass>>,
    <<TestRoot, <<"U", "t", "i", "l">> \o DotClass>> }

\* the class name fragments given on the command line: none, TestA, AB, Z
SubStrings == {NoSub, TestPrefix \o <<"A">>, <<"A", "B">>, <<"Z">>}

\* the sequences without repetition of at most n elements of S
RECURSIVE Arrangements(_, _)
Arrangements(S, n) ==
  IF n = 0 THEN {<<>>}
  ELSE {<<>>} \cup {<<x>> \o q : x \in S, q \in Arrangements(S, n - 1)}
NoRepeat(q) == \A i, j \in DOMAIN q : q[i] = q[j] => i = j

\* str.startswith, str.endswith, 'c in s' for a character, 'sub in s'
StartsWith(t, p) == Len(p) <= Len(t) /\ SubSeq(t, 1, Len(p)) = p
EndsWith(t, p) == Len(p) <= Len(t) /\ SubSeq(t, Len(t) - Len(p) + 1, Len(t)) = p
HasChar(t, c) == \E k \in DOMAIN t : t[k] = c
Contains(t, sub) ==
  \E k \in 0..(Len(t) - Len(sub)) : SubSeq(t, k + 1, k + Len(sub)) = sub

\* line 439
IsTestClassFile(fileName) ==
  /\ StartsWith(fileName, TestPrefix)
  /\ EndsWith(fileName, DotClass)
  /\ ~HasChar(fileName, "$")

\* line 440: '%s/%s' % (root, fileName)
FullPath(file) == file[1] \o <<"/">> \o file[2]

\* line 442: fullPath[19:-6].replace('/', '.')
ClassNameOf(fullPath) ==
  [k \in 1..(Len(fullPath) - 25) |->
     IF fullPath[k + 19] = "/" THEN "." ELSE fullPath[k + 19]]

\* line 441
Selected(file, sub) == sub = NoSub \/ Contains(FullPath(file), sub)

\* line 443
AmbiguousNever(sub, found) == FALSE
Ambiguous(sub, found) == sub # NoSub /\ Len(found) = 1

\* lines 437-445: the next file of the walk
MainWalk ==
  /\ pcMain = "walk"
  /\ mainI < Len(walk)
  /\ LET file == walk[mainI + 1] IN
       IF IsTestClassFile(file[2]) /\ Selected(file, testSubString)
         THEN IF Ambiguous(testSubString, classNames)
                THEN /\ pcMain' = "done" /\ outcome' = "AMBIGUOUS" /\ exitCode' = 1
                     /\ UNCHANGED <<mainI, classNames>>
                ELSE /\ classNames' = Append(classNames, ClassNameOf(FullPath(file)))
                     /\ mainI' = mainI + 1
                     /\ UNCHANGED <<pcMain, outcome, exitCode>>
         ELSE /\ mainI' = mainI + 1
              /\ UNCHANGED <<pcMain, outcome, exitCode, classNames>>
  /\ UNCHANGED <<conVars, rdVars, testClasses, cpus, streams, walk, testSubString,
                 verbose, sumFail, sumTest, sumSuite, jobs, pc, id, counterVars,
                 jobLocalVars, readerVars, childVars, fsVars, histVars>>

\* lines 447-451: nothing was found
MainNoTests ==
  /\ pcMain = "walk"
  /\ mainI = Len(walk)
  /\ Len(classNames) = 0
  /\ pcMain' = "done"
  /\ outcome' = IF testSubString = NoSub THEN "NOTFOUND" ELSE "NOMATCH"
  /\ exitCode' = 1
  /\ UNCHANGED <<conVars, rdVars, inputVars, mainI, sumFail, sumTest, sumSuite, jobs,
                 pc, id, counterVars, jobLocalVars, readerVars, childVars, fsVars,
                 histVars>>

\* a function on the first n workers
Fresh(n, v) == [w \in 1..n |-> v]

\* lines 455-468: the classes are found; jvmCount is computed, build/test is
\* there (with or without an events file left by an earlier run) and the
\* queue is created
MainWalked ==
  /\ pcMain = "walk"
  /\ mainI = Len(walk)
  /\ Len(classNames) > 0
  /\ LET n == Len(classNames)
         c == Min(cpus, n)
     IN /\ testClasses' = [i \in 1..n |-> i]
        /\ pcMain' = "start" /\ mainI' = 0
        /\ pc' = Fresh(c, "unborn")
        /\ id' = Fresh(c, -1)
        /\ testCount' = Fresh(c, 0)
        /\ suiteCount' = Fresh(c, 0)
        /\ failCount' = Fresh(c, 0)
        /\ didFail' = Fresh(c, FALSE)
        /\ testCaseFailed' = Fresh(c, FALSE)
        /\ jobFail0' = Fresh(c, 0)
        /\ jobFailFrames' = Fresh(c, 0)
        /\ pendingOutput' = Fresh(c, <<>>)
        /\ shownNow' = Fresh(c, <<>>)
        /\ lastReport' = Fresh(c, <<>>)
        /\ jobFrames' = Fresh(c, <<>>)
        /\ evFile' = Fresh(c, NoFile)
        /\ evUnread' = Fresh(c, <<>>)
        /\ proc' = Fresh(c, "none")
        /\ childFile' = Fresh(c, NoFile)
        /\ childStdin' = Fresh(c, <<>>)
        /\ childScript' = Fresh(c, <<>>)
        /\ childFailed' = Fresh(c, FALSE)
        /\ pulled' = [j \in 1..n |-> 0]
        /\ \E stale \in BOOLEAN :
             /\ path' = [p \in 0..(c - 1) |->
                           IF stale /\ p = 0 THEN c + 1 ELSE NoFile]
             /\ files' = [f \in 1..(c + 1) |->
                            IF stale /\ f = c + 1 THEN StaleFile ELSE <<>>]
  /\ UNCHANGED <<conVars, rdVars, cpus, streams, walk, testSubString, classNames,
                 verbose, sumFail, sumTest, sumSuite, exitCode, outcome, jobs,
                 emittedStarted, failedJobs>>

\* ------------------------------------------------------------- main()
\* lines 470-474: create and start the i-th thread
MainStart ==
  /\ pcMain = "start"
  /\ id' = [id EXCEPT ![mainI + 1] = WorkerId(mainI)]
  /\ pc' = [pc EXCEPT ![mainI + 1] = "exists"]
  /\ IF mainI + 1 < jvmCount
       THEN mainI' = mainI + 1 /\ pcMain' = pcMain
       ELSE mainI' = 0 /\ pcMain' = "put"
  /\ UNCHANGED <<conVars, rdVars, inputVars, jobs, sumFail, sumTest, sumSuite, exitCode, outcome,
                 counterVars, jobLocalVars, readerVars, childVars, fsVars, histVars>>

\* lines 476-477: jobs.put(s)
MainPut ==
  /\ pcMain = "put"
  /\ jobs' = QueuePut(jobs, testClasses[mainI + 1])
  /\ IF mainI + 1 < Len(testClasses)
       THEN mainI' = mainI + 1 /\ pcMain' = pcMain
       ELSE mainI' = 0 /\ pcMain' = "putNone"
  /\ UNCHANGED <<conVars, rdVars, inputVars, sumFail, sumTest, sumSuite, exitCode, outcome, pc, id,
                 counterVars, jobLocalVars, readerVars, childVars, fsVars, histVars>>

\* lines 479-480: jobs.put(None), once per thread
MainPutNone ==
  /\ pcMain = "putNone"
  /\ jobs' = QueuePut(jobs, None)
  /\ IF mainI + 1 < jvmCount
       THEN mainI' = mainI + 1 /\ pcMain' = pcMain
       ELSE mainI' = 0 /\ pcMain' = "join"
  /\ UNCHANGED <<conVars, rdVars, inputVars, sumFail, sumTest, sumSuite, exitCode, outcome, pc, id,
                 counterVars, jobLocalVars, readerVars, childVars, fsVars, histVars>>

\* lines 485-489: jvm.join() returns once the thread has ended, however it
\* ended; then its counters are added
MainJoin ==
  /\ pcMain = "join"
  /\ JoinReturns(mainI + 1)
  /\ sumFail' = sumFail + failCount[mainI + 1]
  /\ sumTest' = sumTest + testCount[mainI + 1]
  /\ sumSuite' = sumSuite + suiteCount[mainI + 1]
  /\ IF mainI + 1 < jvmCount
       THEN mainI' = mainI + 1 /\ pcMain' = pcMain
       ELSE mainI' = 0 /\ pcMain' = "decide"
  /\ UNCHANGED <<conVars, rdVars, inputVars, jobs, exitCode, outcome, pc, id,
                 counterVars, jobLocalVars, readerVars, childVars, fsVars, histVars>>

\* lines 493-500
MainDecide ==
  /\ pcMain = "decide"
  /\ outcome' = ExitDecision(sumFail, sumTest).outcome
  /\ exitCode' = ExitDecision(sumFail, sumTest).code
  /\ pcMain' = "done"
  /\ UNCHANGED <<conVars, rdVars, inputVars, mainI, jobs, sumFail, sumTest, sumSuite, pc, id,
                 counterVars, jobLocalVars, readerVars, childVars, fsVars, histVars>>

\* ------------------------------------------------------------- RunTestsJVM.run
\* line 109: subprocess.Popen(cmd, ...)
Popen(w) == proc' = [proc EXCEPT ![w] = "launched"]

\* lines 98-99 (and 101-109 when the file is not there)
WorkerExists(w) ==
  /\ pc[w] = "exists"
  /\ IF path[EventsFilePath(id[w])] # NoFile
       THEN pc' = [pc EXCEPT ![w] = "remove"] /\ UNCHANGED proc
       ELSE pc' = [pc EXCEPT ![w] = "open"] /\ Popen(w)
  /\ UNCHANGED <<conVars, rdVars, inputVars, mainVars, jobs, id, counterVars, jobLocalVars, readerVars,
                 childFile, childStdin, childScript, fsVars, histVars>>

\* lines 100-109: os.remove raises FileNotFoundError when another thread
\* removed the file first, and the thread ends
WorkerRemove(w) ==
  /\ pc[w] = "remove"
  /\ IF path[EventsFilePath(id[w])] = NoFile
       THEN /\ pc' = [pc EXCEPT ![w] = "crashed"]
            /\ files' = Kept(files, pc')
            /\ UNCHANGED <<proc, path>>
       ELSE /\ path' = [path EXCEPT ![EventsFilePath(id[w])] = NoFile]
            /\ files' = Unlinked(path[EventsFilePath(id[w])])
            /\ pc' = [pc EXCEPT ![w] = "open"]
            /\ Popen(w)
  /\ UNCHANGED <<conVars, rdVars, inputVars, mainVars, jobs, id, counterVars, jobLocalVars, readerVars,
                 childFile, childStdin, childScript, histVars>>

\* lines 174-184: ReadEvents.__init__ retries open() until the path exists
WorkerOpen(w) ==
  /\ pc[w] = "open"
  /\ path[EventsFilePath(id[w])] # NoFile
  /\ evFile' = [evFile EXCEPT ![w] = path[EventsFilePath(id[w])]]
  /\ evUnread' = [evUnread EXCEPT ![w] = files[path[EventsFilePath(id[w])]]]
  /\ pc' = [pc EXCEPT ![w] = "waitIdle"]
  /\ files' = Kept(files, pc')
  /\ UNCHANGED <<conVars, rdVars, inputVars, mainVars, jobs, id, counterVars, jobLocalVars,
                 childVars, path, histVars>>

\* lines 199-206: waitIdle drops what it reads until a line holds "IDLE",
WorkerWaitIdle(w) ==
  /\ pc[w] = "waitIdle"
  /\ evUnread[w] # <<>>
  /\ evUnread' = [evUnread EXCEPT ![w] = Tail(@)]
  /\ pc' = [pc EXCEPT ![w] = IF Head(evUnread[w]) = "IDLE" THEN "get" ELSE @]
  /\ UNCHANGED <<conVars, rdVars, inputVars, mainVars, jobs, id, counterVars, jobLocalVars, evFile,
                 childVars, fsVars, histVars>>

\* lines 113-130: get a job; None ends the loop; else count the suite and
\* write the job to the child's stdin (BrokenPipeError when the child is gone)
WorkerGet(w) ==
  /\ pc[w] = "get"
  /\ jobs # <<>>
  /\ jobs' = QueueRest(jobs)
  /\ IF QueueHead(jobs) = None
       THEN /\ pc' = [pc EXCEPT ![w] = "done"]
            /\ evUnread' = [evUnread EXCEPT ![w] = <<>>]
            /\ UNCHANGED <<suiteCount, childStdin, jobLocalVars, pulled>>
       ELSE /\ pulled' = [pulled EXCEPT ![QueueHead(jobs)] = @ + 1]
            /\ suiteCount' = [suiteCount EXCEPT ![w] = BumpSuite(@)]
            /\ IF proc[w] = "exited"
                 THEN /\ pc' = [pc EXCEPT ![w] = "crashed"]
                      /\ evUnread' = [evUnread EXCEPT ![w] = <<>>]
                      /\ UNCHANGED <<childStdin, jobLocalVars>>
                 ELSE /\ childStdin' = [childStdin EXCEPT ![w] = Append(@, QueueHead(jobs))]
                      /\ didFail' = [didFail EXCEPT ![w] = FALSE]
                      /\ testCaseFailed' = [testCaseFailed EXCEPT ![w] = FALSE]
                      /\ jobFail0' = [jobFail0 EXCEPT ![w] = failCount[w]]
                      /\ jobFailFrames' = [jobFailFrames EXCEPT ![w] = 0]
                      /\ pendingOutput' = [pendingOutput EXCEPT ![w] = <<>>]
                      /\ shownNow' = [shownNow EXCEPT ![w] = <<>>]
                      /\ lastReport' = [lastReport EXCEPT ![w] = <<>>]
                      /\ jobFrames' = [jobFrames EXCEPT ![w] = <<>>]
                      /\ pc' = [pc EXCEPT ![w] = "events"]
                      /\ UNCHANGED evUnread
  /\ UNCHANGED <<conVars, rdVars, inputVars, mainVars, id, testCount, failCount, evFile,
                 proc, childFile, childScript, fsVars, emittedStarted, failedJobs,
                 childFailed>>

\* lines 132-170: read the next frame of the events file and act on its kind
WorkerEvent(w) ==
  /\ pc[w] = "events"
  /\ evUnread[w] # <<>>
  /\ evUnread' = [evUnread EXCEPT ![w] = Tail(@)]
  /\ LET kind == Head(evUnread[w]) IN
       /\ failCount' = [failCount EXCEPT ![w] =
            IF kind \in FailureKinds THEN CountFailure(didFail[w], @) ELSE @]
       /\ didFail' = [didFail EXCEPT ![w] = LatchAfter(@, kind \in FailureKinds)]
       /\ testCaseFailed' = [testCaseFailed EXCEPT ![w] =
            IF kind \in FailureKinds THEN TRUE
            ELSE IF kind = "TEST_STARTED" THEN FALSE ELSE @]
       /\ testCount' = [testCount EXCEPT ![w] =
            IF kind = "TEST_STARTED" THEN @ + 1 ELSE @]
       /\ jobFailFrames' = [jobFailFrames EXCEPT ![w] =
            IF kind \in FailureKinds THEN Min(@ + 1, ManyFailures) ELSE @]
       /\ pendingOutput' = [pendingOutput EXCEPT ![w] =
            IF kind \in AppendKinds /\ ~ShowNow(testCaseFailed[w], printOutput)
              THEN Append(@, Len(jobFrames[w]) + 1) ELSE @]
       /\ shownNow' = [shownNow EXCEPT ![w] =
            IF kind \in AppendKinds /\ ShowNow(testCaseFailed[w], printOutput)
              THEN Append(@, Len(jobFrames[w]) + 1) ELSE @]
       /\ lastReport' = [lastReport EXCEPT ![w] =
            IF kind \in FailureKinds THEN pendingOutput[w] ELSE @]
       /\ jobFrames' = [jobFrames EXCEPT ![w] =
            IF kind = "IDLE" THEN @ ELSE Append(@, kind)]
       /\ pc' = [pc EXCEPT ![w] = IF kind = "IDLE" THEN "get" ELSE @]
  /\ UNCHANGED <<conVars, rdVars, inputVars, mainVars, jobs, id, suiteCount, jobFail0, evFile,
                 childVars, fsVars, histVars>>

\* lines 190-194: no line to read and poll() shows the child has exited
WorkerRaise(w) ==
  /\ pc[w] \in {"waitIdle", "events"}
  /\ evUnread[w] = <<>>
  /\ proc[w] = "exited"
  /\ pc' = [pc EXCEPT ![w] = "raised"]
  /\ UNCHANGED <<conVars, rdVars, inputVars, mainVars, jobs, id, counterVars, jobLocalVars, readerVars,
                 childVars, fsVars, histVars>>

\* ------------------------------------------------------------- the child JVM
\* the child opens the path given after -eventsfile, creating the file when
\* it is not there, and appends its startup frames
ChildBoot(w) ==
  /\ proc[w] = "launched"
  /\ LET p == EventsFilePath(id[w])
         f == IF path[p] = NoFile THEN w ELSE path[p]
     IN /\ path' = [path EXCEPT ![p] = f]
        /\ Appended(f, StartupFrames)
        /\ childFile' = [childFile EXCEPT ![w] = f]
  /\ proc' = [proc EXCEPT ![w] = "running"]
  /\ UNCHANGED <<conVars, rdVars, inputVars, mainVars, jobs, pc, id, counterVars, jobLocalVars,
                 evFile, childStdin, childScript, histVars>>

\* what appending the frame kind does to the child's state: after IDLE the
\* child reads its stdin again
Written(w, kind, rest) ==
  /\ Appended(childFile[w], <<kind>>)
  /\ childScript' = [childScript EXCEPT ![w] = rest]
  /\ childStdin' = [childStdin EXCEPT ![w] = IF kind = "IDLE" THEN Tail(@) ELSE @]
  /\ emittedStarted' = IF kind = "TEST_STARTED" THEN emittedStarted + 1
                       ELSE emittedStarted
  /\ failedJobs' = IF kind \in FailureKinds /\ ~childFailed[w]
                     THEN failedJobs + 1 ELSE failedJobs
  /\ childFailed' = [childFailed EXCEPT ![w] =
                       kind # "IDLE" /\ (@ \/ kind \in FailureKinds)]

\* the child reads a job from its stdin, runs the suite, whose frames are
\* one of the streams followed by IDLE, and appends the first of them
ChildRun(w, s) ==
  /\ proc[w] = "running"
  /\ childStdin[w] # <<>>
  /\ childScript[w] = <<>>
  /\ Written(w, Head(Append(s, "IDLE")), Tail(Append(s, "IDLE")))
  /\ UNCHANGED <<conVars, rdVars, inputVars, mainVars, jobs, pc, id, counterVars, jobLocalVars,
                 evFile, proc, childFile, path, pulled>>

\* the child appends the next frame of the suite it is running
ChildEmit(w) ==
  /\ proc[w] = "running"
  /\ childScript[w] # <<>>
  /\ Written(w, Head(childScript[w]), Tail(childScript[w]))
  /\ UNCHANGED <<conVars, rdVars, inputVars, mainVars, jobs, pc, id, counterVars, jobLocalVars,
                 evFile, proc, childFile, path, pulled>>

\* the child dies (a crash, a kill, System.exit in a test)
ChildExit(w) ==
  /\ proc[w] \in {"launched", "running"}
  /\ ~Terminated(w)
  /\ proc' = [proc EXCEPT ![w] = "exited"]
  /\ UNCHANGED <<conVars, rdVars, inputVars, mainVars, jobs, pc, id, counterVars, jobLocalVars, readerVars,
                 childFile, childStdin, childScript, fsVars, histVars>>

\* ------------------------------------------------------------- the console
\* run() with respect to the console.  A worker is at one of the places
\*   "get"      blocked in self.jobs.get()            (line 114)
\*   "job"      in message('%s...' % job[25:])        (line 120)
\*   "stdin"    writing the job to the child's stdin  (lines 122-123)
\*   "readline" in events.readline()                  (line 133)
\*   "chunk"    in message(chunk)                     (line 144)
\*   "failure"  in message(s)                         (line 154)
\*   "done"     after the loop
\* and inside message() at one of the steps "acquire" (waiting to enter
\* 'with printLock'), "print" (line 55), "release" (leaving the with block).
MessagePlaces == {"job", "chunk", "failure"}
Outside == "-"

\* line 54: 'with printLock' is entered when no thread holds the lock
LockFreeAlways(holder) == TRUE
LockFree(holder) == holder = NoHolder

\* line 114: the queue hands out a class name or None
ConGet(w) ==
  /\ conPc[w] = <<"get", Outside>>
  /\ \E next \in {<<"job", "acquire">>, <<"done", Outside>>} :
       conPc' = [conPc EXCEPT ![w] = next]
  /\ UNCHANGED <<printLock, poolVars, rdVars>>

\* line 54: printLock.acquire()
ConAcquire(w) ==
  /\ conPc[w][1] \in MessagePlaces /\ conPc[w][2] = "acquire"
  /\ LockFree(printLock)
  /\ printLock' = w
  /\ conPc' = [conPc EXCEPT ![w] = <<@[1], "print">>]
  /\ UNCHANGED <<poolVars, rdVars>>

\* line 55: print(s)
ConPrint(w) ==
  /\ conPc[w][1] \in MessagePlaces /\ conPc[w][2] = "print"
  /\ conPc' = [conPc EXCEPT ![w] = <<@[1], "release">>]
  /\ UNCHANGED <<printLock, poolVars, rdVars>>

\* the end of the with block: printLock.release(), and message() returns to
\* line 122 or to the line loop
ConRelease(w) ==
  /\ conPc[w][1] \in MessagePlaces /\ conPc[w][2] = "release"
  /\ printLock' = NoHolder
  /\ conPc' = [conPc EXCEPT ![w] =
       IF @[1] = "job" THEN <<"stdin", Outside>> ELSE <<"readline", Outside>>]
  /\ UNCHANGED <<poolVars, rdVars>>

\* lines 122-123
ConStdin(w) ==
  /\ conPc[w] = <<"stdin", Outside>>
  /\ conPc' = [conPc EXCEPT ![w] = <<"readline", Outside>>]
  /\ UNCHANGED <<printLock, poolVars, rdVars>>

\* lines 133-170: the line read leads to message(chunk), to message(s), to
\* the next line (a line inside a frame, a chunk kept back, TEST_STARTED) or,
\* after IDLE, to the next get
ConReadline(w) ==
  /\ conPc[w] = <<"readline", Outside>>
  /\ \E next \in {<<"chunk", "acquire">>, <<"failure", "acquire">>,
                   <<"readline", Outside>>, <<"get", Outside>>} :
       conPc' = [conPc EXCEPT ![w] = next]
  /\ UNCHANGED <<printLock, poolVars, rdVars>>

\* ------------------------------------------------------------- the reader level
\* The events file as characters.  A frame is the JSON array the child's
\* writer lays out over several lines: '[', the kind, the payload, ']', and
\* an empty line after it.  A line is written here without its newline.
NL == "\n"
SP == " "

\* str.rstrip() strips trailing whitespace
Whitespace == {NL, SP}

IdleFrame == << <<"[">>, <<"I">>, <<"p">>, <<"]">>, <<>> >>
TestFrame == << <<"[">>, <<"T">>, <<"p">>, <<"]">>, <<>> >>
\* a payload that holds an array: its closing bracket is indented
FailFrame == << <<"[">>, <<"F">>, <<SP, "]">>, <<"]">>, <<>> >>

\* the frames a suite makes the child write before IDLE
ReaderJobs == {<<>>, <<TestFrame>>, <<FailFrame, TestFrame>>}

RECURSIVE Flatten(_)
Flatten(ss) == IF ss = <<>> THEN <<>> ELSE Head(ss) \o Flatten(Tail(ss))

\* the characters of a sequence of frames
FrameText(frames) == Flatten([k \in 1..Len(Flatten(frames)) |->
                               Append(Flatten(frames)[k], NL)])

\* file.readline() at position cur: up to and including the next newline,
\* or up to the end of the file
RECURSIVE UpToNewline(_)
UpToNewline(cs) ==
  IF cs = <<>> THEN <<>>
  ELSE IF Head(cs) = NL THEN <<NL>>
  ELSE <<Head(cs)>> \o UpToNewline(Tail(cs))
FileReadline(bytes, cur) == UpToNewline(SubSeq(bytes, cur + 1, Len(bytes)))

\* line 190: not (l == '' or not l.endswith('\n'))
CompleteLine(l) == l # <<>> /\ l[Len(l)] = NL

\* line 134: l.rstrip()
RECURSIVE Rstrip(_)
Rstrip(l) ==
  IF l = <<>> THEN <<>>
  ELSE IF l[Len(l)] \in Whitespace THEN Rstrip(SubSeq(l, 1, Len(l) - 1))
  ELSE l

\* line 195: self.f.seek(pos), as the position the file object is left at
SeekBackForgotten(pos, cur) == cur
SeekBack(pos, cur) == pos

\* line 203: l.find('"IDLE",') != -1
HasIdle(l) == \E k \in 1..Len(l) : l[k] = "I"

\* line 140: json.loads('\n'.join(lines)) accepts white space before the
\* array and nothing else; event[0] is the kind
JsonLoads(lines) == Rstrip(lines[1]) = <<>>
EventKind(lines) == lines[3][1]

\* the child appends the next character of its output
RdWrite ==
  /\ rdPc \in {"read", "poll"}
  /\ rdAlive
  /\ rdScript # <<>>
  /\ rdFile' = Append(rdFile, Head(rdScript))
  /\ rdScript' = Tail(rdScript)
  /\ UNCHANGED <<conVars, poolVars, rdFrames, rdAlive, rdPc, rdPhase, rdPos, rdCur, rdLines,
                 rdReturned, rdLast, rdDecoded, rdPartial>>

\* the child exits, whatever it has written
RdExit ==
  /\ rdPc \in {"read", "poll"}
  /\ rdAlive
  /\ rdAlive' = FALSE
  /\ UNCHANGED <<conVars, poolVars, rdFile, rdScript, rdFrames, rdPc, rdPhase, rdPos, rdCur,
                 rdLines, rdReturned, rdLast, rdDecoded, rdPartial>>

\* lines 188-191: the read attempt finds no complete line
RdMiss ==
  /\ rdPc = "read"
  /\ ~CompleteLine(FileReadline(rdFile, rdCur))
  /\ rdPos' = rdCur
  /\ rdCur' = rdCur + Len(FileReadline(rdFile, rdCur))
  /\ rdPartial' = (rdPartial \/ FileReadline(rdFile, rdCur) # <<>>)
  /\ rdPc' = "poll"
  /\ UNCHANGED <<conVars, poolVars, rdFile, rdScript, rdFrames, rdAlive, rdPhase, rdLines,
                 rdReturned, rdLast, rdDecoded>>

\* lines 192-195: the liveness probe, then the seek back
RdPoll ==
  /\ rdPc = "poll"
  /\ IF ~rdAlive
       THEN rdPc' = "raised" /\ UNCHANGED rdCur
       ELSE rdPc' = "read" /\ rdCur' = SeekBack(rdPos, rdCur)
  /\ UNCHANGED <<conVars, poolVars, rdFile, rdScript, rdFrames, rdAlive, rdPhase, rdPos,
                 rdLines, rdReturned, rdLast, rdDecoded, rdPartial>>

\* lines 133-170: what run() does with a line l that readline returned
JobLine(l) ==
  LET r == Rstrip(l)
      all == Append(rdLines, r)
  IN IF r # <<"]">>
       THEN rdLines' = all /\ UNCHANGED <<rdPc, rdDecoded>>
     ELSE IF Len(all) < 2
       THEN rdPc' = "crashed" /\ UNCHANGED <<rdLines, rdDecoded>>
     ELSE IF all[2] # <<"[">>
       THEN rdLines' = <<>> /\ UNCHANGED <<rdPc, rdDecoded>>
     ELSE IF ~JsonLoads(all)
       THEN rdPc' = "crashed" /\ UNCHANGED <<rdLines, rdDecoded>>
     ELSE /\ rdDecoded' = Append(rdDecoded, all)
          /\ rdLines' = <<>>
          /\ rdPc' = IF EventKind(all) = "I" THEN "idle" ELSE rdPc

\* lines 188-190 and 197: the read attempt finds a complete line and readline
\* returns it to waitIdle (lines 202-206) or to run()
RdReturn ==
  /\ rdPc = "read"
  /\ CompleteLine(FileReadline(rdFile, rdCur))
  /\ LET l == FileReadline(rdFile, rdCur) IN
       /\ rdPos' = rdCur
       /\ rdCur' = rdCur + Len(l)
       /\ rdReturned' = rdReturned \o l
       /\ rdLast' = l
       /\ IF rdPhase = "waitIdle"
            THEN /\ rdPhase' = IF HasIdle(l) THEN "job" ELSE rdPhase
                 /\ UNCHANGED <<rdPc, rdLines, rdDecoded>>
            ELSE JobLine(l) /\ UNCHANGED rdPhase
  /\ UNCHANGED <<conVars, poolVars, rdFile, rdScript, rdFrames, rdAlive, rdPartial>>

\* ------------------------------------------------------------- specifications
Next ==
  \/ MainStart \/ MainPut \/ MainPutNone \/ MainJoin \/ MainDecide
  \/ \E w \in Workers : WorkerExists(w)
  \/ \E w \in Workers : WorkerRemove(w)
  \/ \E w \in Workers : WorkerOpen(w)
  \/ \E w \in Workers : WorkerWaitIdle(w)
  \/ \E w \in Workers : WorkerGet(w)
  \/ \E w \in Workers : WorkerEvent(w)
  \/ \E w \in Workers : WorkerRaise(w)
  \/ \E w \in Workers : ChildBoot(w)
  \/ \E w \in Workers : \E s \in streams : ChildRun(w, s)
  \/ \E w \in Workers : ChildEmit(w)
  \/ \E w \in Workers : ChildExit(w)

Spec == Init /\ [][Next]_vars

\* the run in which no child dies: every child writes its startup IDLE and an
\* IDLE after each job it is given
NextCoop ==
  \/ MainStart \/ MainPut \/ MainPutNone \/ MainJoin \/ MainDecide
  \/ \E w \in Workers : WorkerExists(w)
  \/ \E w \in Workers : WorkerRemove(w)
  \/ \E w \in Workers : WorkerOpen(w)
  \/ \E w \in Workers : WorkerWaitIdle(w)
  \/ \E w \in Workers : WorkerGet(w)
  \/ \E w \in Workers : WorkerEvent(w)
  \/ \E w \in Workers : ChildBoot(w)
  \/ \E w \in Workers : \E s \in streams : ChildRun(w, s)
  \/ \E w \in Workers : ChildEmit(w)

SpecCoop == InitCoop /\ [][NextCoop]_vars

\* one worker, every stream of frames
SpecWorker == InitWorker /\ [][Next]_vars

\* main() from the class discovery on: up to MaxFiles files in any order, any
\* of the fragments, one processor, suites of no test or one passing test
InitSelect ==
  /\ walk \in {q \in Arrangements(WalkFiles, MaxFiles) : NoRepeat(q)}
  /\ testSubString \in SubStrings
  /\ classNames = <<>>
  /\ verbose = FALSE
  /\ testClasses = <<>>
  /\ cpus = 1
  /\ streams = {<<>>, <<"TEST_STARTED">>}
  /\ pcMain = "walk" /\ mainI = 0
  /\ jobs = <<>>
  /\ sumFail = 0 /\ sumTest = 0 /\ sumSuite = 0
  /\ exitCode = -1 /\ outcome = ""
  /\ pc = <<>> /\ id = <<>>
  /\ testCount = <<>> /\ suiteCount = <<>> /\ failCount = <<>>
  /\ didFail = <<>> /\ testCaseFailed = <<>>
  /\ jobFail0 = <<>> /\ jobFailFrames = <<>>
  /\ pendingOutput = <<>> /\ shownNow = <<>> /\ lastReport = <<>>
  /\ jobFrames = <<>>
  /\ evFile = <<>> /\ evUnread = <<>>
  /\ proc = <<>> /\ childFile = <<>> /\ childStdin = <<>> /\ childScript = <<>>
  /\ childFailed = <<>>
  /\ path = <<>> /\ files = << <<>> >>
  /\ pulled = <<>>
  /\ emittedStarted = 0 /\ failedJobs = 0
  /\ RdOff /\ ConOff

NextSelect == MainWalk \/ MainNoTests \/ MainWalked \/ Next

SpecSelect == InitSelect /\ [][NextSelect]_vars

\* the threads of the pool at the console
InitConsole ==
  /\ InitPool(NumJobs, CpuCount, PoolStreams, {FALSE}) /\ RdOff /\ RunAll
  /\ printLock = NoHolder
  /\ conPc = [w \in Workers |-> <<"get", Outside>>]

NextConsole ==
  \/ \E w \in Workers : ConGet(w)
  \/ \E w \in Workers : ConAcquire(w)
  \/ \E w \in Workers : ConPrint(w)
  \/ \E w \in Workers : ConRelease(w)
  \/ \E w \in Workers : ConStdin(w)
  \/ \E w \in Workers : ConReadline(w)

SpecConsole == InitConsole /\ [][NextConsole]_vars

\* one class on one worker, every stream of output, failure and start frames,
\* with and without a class named on the command line, with and without
\* -verbose
InitOutput ==
  /\ InitPool(1, 1, SeqsUpTo(OutputKinds, MaxOutFrames), BOOLEAN) /\ RdOff
  /\ walk = <<>> /\ classNames = <<>>
  /\ testSubString \in {NoSub, TestPrefix \o <<"A">>}
  /\ verbose \in BOOLEAN
  /\ ConOff

SpecOutput == InitOutput /\ [][Next]_vars

\* one events file read while its child writes it: the startup IDLE, the
\* frames of one job, the IDLE after them
InitReader ==
  /\ InitPool(1, 1, {<<>>}, {FALSE}) /\ RunAll /\ ConOff
  /\ \E fr \in ReaderJobs :
       /\ rdFrames = fr
       /\ rdScript = FrameText(<<IdleFrame>> \o fr \o <<IdleFrame>>)
  /\ rdFile = <<>> /\ rdAlive = TRUE /\ rdPc = "read" /\ rdPhase = "waitIdle"
  /\ rdPos = 0 /\ rdCur = 0 /\ rdLines = <<>>
  /\ rdReturned = <<>> /\ rdLast = <<>> /\ rdDecoded = <<>>
  /\ rdPartial = FALSE

NextReader == RdWrite \/ RdExit \/ RdMiss \/ RdPoll \/ RdReturn

SpecReader == InitReader /\ [][NextReader]_vars

\* ------------------------------------------------------------ properties
\* the real jobs still in the queue
QueuedJobs == {k \in 1..Len(jobs) : jobs[k] # None}

\* C1: in every interleaving of the workers' pulls, queue.get() hands each
\* enqueued class name to at most one worker and at most once.
C1_PulledAtMostOnce == \A j \in DOMAIN pulled : pulled[j] <= 1

\* both workers have pulled a job, and every job was pulled
C1_Witness ==
  /\ jvmCount >= 2
  /\ \A w \in Workers : suiteCount[w] >= 1
  /\ \A j \in DOMAIN pulled : pulled[j] = 1

\* C2: once no job is left in the queue and every worker is joined, the
\* suiteCounts main() summed add up to the number of jobs.
C2_SuiteSumIsJobCount ==
  (pcMain \in {"decide", "done"} /\ QueuedJobs = {})
    => sumSuite = Len(testClasses)

\* the run is over, the jobs were shared between two workers
C2_Witness ==
  /\ pcMain = "done" /\ QueuedJobs = {}
  /\ jvmCount >= 2
  /\ \A w \in Workers : suiteCount[w] >= 1
  /\ sumSuite = Len(testClasses)

\* C3: over a job in which the worker decodes K >= 1 failure frames its
\* failCount grows by exactly 1, over a job with none it does not change, and
\* didFail is false again when a job starts.
C3_FailureCountedOncePerJob ==
  \A w \in Workers :
    /\ failCount[w] = jobFail0[w] + (IF jobFailFrames[w] >= 1 THEN 1 ELSE 0)
    /\ (pc[w] = "events" => (didFail[w] <=> jobFailFrames[w] >= 1))

\* a worker has ended a job with several failure frames, after another job
\* that had failed too
C3_Witness ==
  \E w \in Workers :
    /\ pc[w] = "get"
    /\ jobFailFrames[w] = ManyFailures
    /\ jobFail0[w] = 1
    /\ failCount[w] = 2

\* C4: after the joins the exit code is 0 exactly when the summed failCount
\* is 0 and the summed testCount is positive, and 1 when the summed failCount
\* is positive.
C4_ExitCodeRule ==
  pcMain = "done" =>
    /\ (exitCode = 0 <=> (sumFail = 0 /\ sumTest > 0))
    /\ (sumFail > 0 => exitCode = 1)

\* C5: a run in which a worker's readline raised because its child had
\* exited ends with a nonzero exit code and never reports SUCCESS.
C5_AbortFailsTheRun ==
  (pcMain = "done" /\ \E w \in Workers : pc[w] = "raised")
    => (exitCode # 0 /\ outcome # "SUCCESS")

\* C6: two workers never have the same events file path, so a worker only
\* ever reads the file its own child created.
C6_DedicatedEventsFile ==
  /\ \A v, w \in Workers :
       (v # w /\ pc[v] # "unborn" /\ pc[w] # "unborn")
         => EventsFilePath(id[v]) # EventsFilePath(id[w])
  /\ \A w \in Workers : evFile[w] \in {NoFile, w}

\* C7: after the joins the summed testCount is the number of TEST_STARTED
\* frames the children wrote and the summed failCount is the number of jobs
\* whose child wrote a failure frame.
C7_TotalsMatchTheStreams ==
  pcMain = "done" => (sumTest = emittedStarted /\ sumFail = failedJobs)

\* C8: readline returns only newline-terminated lines, in the order of the
\* file and with no byte skipped or read twice, and every text run() hands
\* to json.loads is one whole frame of the child, from its '[' to its ']'.
C8_OnlyWholeFrames ==
  /\ (rdLast # <<>> => rdLast[Len(rdLast)] = NL)
  /\ Len(rdReturned) <= Len(rdFile)
  /\ rdReturned = SubSeq(rdFile, 1, Len(rdReturned))
  /\ (rdPc = "read" => rdCur = Len(rdReturned))
  /\ \A k \in 1..Len(rdDecoded) :
       /\ k <= Len(rdFrames) + 1
       /\ rdDecoded[k] =
            <<<<>>>> \o SubSeq(Append(rdFrames, IdleFrame)[k], 1,
                               Len(Append(rdFrames, IdleFrame)[k]) - 1)

\* the reader met an unfinished line, went back, and has decoded the three
\* frames of the job
C8_Witness ==
  /\ rdPartial
  /\ rdPc = "idle"
  /\ Len(rdDecoded) = 3

\* C9: readline raises only when no complete line lies in the file past the
\* offset it read from.
C9_RaisesOnlyWithoutALine ==
  rdPc = "raised" => ~CompleteLine(FileReadline(rdFile, rdPos))

\* C10: when no child dies, the run goes on until main() has its outcome:
\* no worker is left waiting for ever.
C10_RunEnds == pcMain = "done" \/ ENABLED NextCoop

\* the workers main() has joined and added to its sums (lines 485-489)
JoinedWorkers ==
  IF pcMain = "join" THEN 1..mainI
  ELSE IF pcMain \in {"decide", "done"} THEN Workers
  ELSE {}

\* the sum of a counter over a set of workers
RECURSIVE SumOver(_, _)
SumOver(f, S) ==
  IF S = {} THEN 0
  ELSE LET w == CHOOSE x \in S : TRUE IN f[w] + SumOver(f, S \ {w})

\* C15: main() adds a worker's counters only when that thread has ended, and
\* the counters do not change afterwards: its sums are always the sums of the
\* current counters of the workers it has joined.
C15_SumsAreFinalValues ==
  /\ \A w \in JoinedWorkers : Terminated(w)
  /\ sumFail = SumOver(failCount, JoinedWorkers)
  /\ sumTest = SumOver(testCount, JoinedWorkers)
  /\ sumSuite = SumOver(suiteCount, JoinedWorkers)

\* main() has added the first worker's counters and waits for the second,
\* which is in the middle of a job
C15_Witness ==
  /\ pcMain = "join" /\ mainI = 1
  /\ suiteCount[1] >= 1 /\ sumSuite = suiteCount[1]
  /\ pc[2] = "events"

\* C16: a child has at most one job that it was given and has not ended with
\* IDLE, and it is given none before it has written its startup IDLE.
C16_OneOutstandingJob ==
  \A w \in Workers :
    /\ Len(childStdin[w]) <= 1
    /\ (childStdin[w] # <<>> => proc[w] # "launched")

\* C18: which worker runs a job is fixed before the run: two workers never
\* wait in jobs.get() for the same class name.
C18_StaticSlices ==
  \A v, w \in Workers :
    (v # w /\ pc[v] = "get" /\ pc[w] = "get" /\ jobs # <<>>)
      => QueueHead(jobs) = None

\* C18, as amended: the class names are pulled in the order of the queue, a
\* pulled class name is never in the queue again, and it is given to one
\* child only.
C18_PulledInQueueOrder ==
  /\ \A i, j \in DOMAIN pulled : (i < j /\ pulled[j] >= 1) => pulled[i] >= 1
  /\ \A k \in QueuedJobs : pulled[jobs[k]] = 0
  /\ \A v, w \in Workers : \A a \in DOMAIN childStdin[v], b \in DOMAIN childStdin[w] :
       childStdin[v][a] = childStdin[w][b] => (v = w /\ a = b)

\* the second worker pulled the first class and the first worker the second
C18_Witness ==
  /\ jvmCount >= 2
  /\ childStdin[2] = <<1>>
  /\ childStdin[1] = <<2>>

\* C19: in the queue no class name comes after a None, and a worker has left
\* its loop through None only when every class name has been pulled.
C19_SentinelsAfterJobs ==
  /\ \A k, l \in DOMAIN jobs : (k < l /\ jobs[k] = None) => jobs[l] = None
  /\ (\E w \in Workers : pc[w] = "done") =>
       (QueuedJobs = {} /\ \A j \in DOMAIN pulled : pulled[j] >= 1)

\* a worker has pulled its None while the other is still running a job
C19_Witness ==
  \E v, w \in Workers :
    /\ pc[v] = "done" /\ pc[w] = "events"
    /\ \A j \in DOMAIN pulled : pulled[j] = 1

\* C20: a worker's failCount never exceeds its suiteCount, and main()'s
\* summed failCount never exceeds its summed suiteCount.
C20_FailuresAtMostSuites ==
  /\ \A w \in Workers : failCount[w] <= suiteCount[w]
  /\ sumFail <= sumSuite

\* a worker has run a job in which a suite failed before any test started
\* and a frame of a kind run() does not know followed
C20_Witness ==
  \E w \in Workers :
    /\ pc[w] = "get"
    /\ jobFrames[w] = <<"SUITE_FAILURE", "TEST_FINISHED">>
    /\ failCount[w] = 1 /\ suiteCount[w] = 1 /\ testCount[w] = 0

\* whether, among the frames fr, a failure frame lies before position k with
\* no TEST_STARTED between it and k
FailedSince(fr, k) ==
  \E i \in 1..(k - 1) :
    /\ fr[i] \in FailureKinds
    /\ \A j \in (i + 1)..(k - 1) : fr[j] # "TEST_STARTED"

\* the chunks among the first n frames of fr that are to be kept back, and
\* those that are to be printed at once
RECURSIVE BufferedUpTo(_, _)
BufferedUpTo(fr, n) ==
  IF n = 0 THEN <<>>
  ELSE IF fr[n] \in AppendKinds /\ ~(printOutput \/ FailedSince(fr, n))
    THEN Append(BufferedUpTo(fr, n - 1), n)
  ELSE BufferedUpTo(fr, n - 1)
RECURSIVE ShownUpTo(_, _)
ShownUpTo(fr, n) ==
  IF n = 0 THEN <<>>
  ELSE IF fr[n] \in AppendKinds /\ (printOutput \/ FailedSince(fr, n))
    THEN Append(ShownUpTo(fr, n - 1), n)
  ELSE ShownUpTo(fr, n - 1)

\* the positions of the failure frames of fr
FailurePositions(fr) == {k \in 1..Len(fr) : fr[k] \in FailureKinds}
LastOf(S) == CHOOSE k \in S : \A l \in S : l <= k

\* C13: with -verbose no chunk is kept back in pendingOutput.
C13_VerboseEchoes ==
  verbose => \A w \in Workers : pendingOutput[w] = <<>>

\* C17: of the frames a worker has decoded in its job, the chunks printed at
\* once are those that came in print-output mode or after a failure frame
\* with no TEST_STARTED since, the others are in pendingOutput in their
\* order, and the last failure report held every chunk kept back before it.
C17_BufferedUnlessFailedOrPrinting ==
  \A w \in Workers :
    /\ pendingOutput[w] = BufferedUpTo(jobFrames[w], Len(jobFrames[w]))
    /\ shownNow[w] = ShownUpTo(jobFrames[w], Len(jobFrames[w]))
    /\ lastReport[w] =
         IF FailurePositions(jobFrames[w]) = {} THEN <<>>
         ELSE BufferedUpTo(jobFrames[w], LastOf(FailurePositions(jobFrames[w])))
    /\ testCaseFailed[w] = FailedSince(jobFrames[w], Len(jobFrames[w]) + 1)

\* run-all mode: a chunk was kept back and then reported with the failure,
\* the next chunk was printed at once, and TEST_STARTED has reset the flag
C17_Witness ==
  \E w \in Workers :
    /\ ~printOutput
    /\ jobFrames[w] = <<"APPEND_STDOUT", "TEST_FAILURE", "APPEND_STDOUT",
                        "TEST_STARTED">>
    /\ pendingOutput[w] = <<1>>
    /\ shownNow[w] = <<3>>
    /\ lastReport[w] = <<1>>
    /\ ~testCaseFailed[w]

\* C14: at most one worker is at print(s), the lock is held exactly by the
\* worker that is between acquiring and releasing it inside message(), and
\* so by no worker that is in jobs.get(), in readline() or writing to stdin.
C14_PrintLockExcludes ==
  /\ \A v, w \in Workers :
       (conPc[v][2] = "print" /\ conPc[w][2] = "print") => v = w
  /\ \A w \in Workers :
       /\ (printLock = w) <=> (conPc[w][2] \in {"print", "release"})
       /\ conPc[w][1] \in {"get", "stdin", "readline", "done"} => printLock # w

\* one worker prints a failure report while the other waits for the lock to
\* print a chunk
C14_Witness ==
  \E v, w \in Workers :
    /\ conPc[v] = <<"failure", "print">>
    /\ conPc[w] = <<"chunk", "acquire">>
    /\ printLock = v

\* the files of the walk that line 439 takes for test classes and whose path
\* holds the fragment
MatchingFiles ==
  {k \in DOMAIN walk : IsTestClassFile(walk[k][2])
                         /\ Contains(FullPath(walk[k]), testSubString)}

\* C11: when no class is found, or when the run ends with no test counted
\* and no failure, main() reports that there were no tests, which is neither
\* the report of failed tests nor SUCCESS.
C11_NoTestsIsReported ==
  /\ (pcMain = "done" /\ mainI = Len(walk) /\ classNames = <<>>)
       => outcome \in {"NOTFOUND", "NOMATCH"}
  /\ (pcMain = "done" /\ testClasses # <<>> /\ sumTest = 0 /\ sumFail = 0)
       => outcome = "NOTESTS"

\* a suite was run and no test started
C11_Witness ==
  /\ pcMain = "done" /\ outcome = "NOTESTS"
  /\ sumSuite = 1
  /\ Len(walk) = MaxFiles

\* C12: with a fragment given, once the walk is over: if one class matches,
\* that class alone is in testClasses and in the queue; if several match, the
\* run has ended with the ambiguity error and there is no thread and no child.
C12_OneClassOrAmbiguity ==
  (testSubString # NoSub /\ pcMain # "walk") =>
    /\ Cardinality(MatchingFiles) = 1 =>
         /\ classNames =
              <<ClassNameOf(FullPath(walk[CHOOSE k \in MatchingFiles : TRUE]))>>
         /\ testClasses = <<1>>
         /\ \A k \in QueuedJobs : jobs[k] = 1
         /\ outcome \notin {"AMBIGUOUS", "NOMATCH"}
    /\ Cardinality(MatchingFiles) >= 2 =>
         /\ outcome = "AMBIGUOUS" /\ exitCode = 1 /\ pcMain = "done"
         /\ Workers = {} /\ pc = <<>> /\ proc = <<>>
         /\ jobs = <<>>

\* TestA matched TestA.class and o/TestAB.class, in a walk of three files
C12_Witness ==
  /\ outcome = "AMBIGUOUS"
  /\ Len(walk) = MaxFiles
  /\ Cardinality(MatchingFiles) = 2

====
